---- MODULE Spec2Model ----
(***************************************************************************)
(* retag: recruitment-tag recognition and the recruitment calculator.      *)
(*                                                                         *)
(* Three specifications share the variables below.                         *)
(*   SpecCalc  the calculator as a function of its inputs: a catalog file, *)
(*             the three ignore flags and a tag list are drawn, then       *)
(*             Calculator::new and Calculator::evaluate are applied.       *)
(*   SpecTags  the recognition as functions of their inputs: a frame with  *)
(*             its candidate rectangles, a tag string, or a list of        *)
(*             contours is drawn, then image_to_tags, Tag::new or          *)
(*             detect_tag_boxes is applied.                                *)
(*   Spec      the running program: the UI thread (title read, start       *)
(*             button, window selection, the overlay's drawing loop and    *)
(*             its call of evaluate) and the detection loops it spawns,    *)
(*             which publish tag lists to the shared slot, with the guards *)
(*             of the four mutexes.                                        *)
(***************************************************************************)
EXTENDS Integers, Sequences, FiniteSets, TLC

VARIABLES
    catalog,          \* data/pool.json as found on disk
    cpc,              \* the calculator's life: "start", "ready", "flagged", "evaluated",
                      \* "reevaluated", "panicked"
    pool,             \* Calculator.pool
    ignore_tier_1,    \* Calculator.ignore_tier_1
    ignore_tier_2,    \* Calculator.ignore_tier_2
    ignore_tier_3,    \* Calculator.ignore_tier_3
    tags,             \* the shared Arc<Mutex<Vec<UiTag>>>
    variations,       \* the variations the last evaluate call enumerated
    results,          \* what the last evaluate call returned
    capture_active,   \* MainMenu.capture_active
    window,           \* MainMenu.window: 0 is None, k > 0 the k-th Arc<Mutex<Window>> created
    pc,               \* each detection thread's position in the loop of start_capture
    window_clone,     \* the window mutex each detection thread captured when spawned
    pass_tags,        \* the tag list a detection thread has computed and not yet published
    guard,            \* window mutex -> the thread holding its guard (0: free)
    poisoned,         \* the window mutexes poisoned by a panic under their guard
    tags_guard,       \* the holder of the tag list's guard: Free, a detection thread or Ui
    off_publishers,   \* the detection threads that published since the flag last went off
    ui_pc,            \* the UI thread's position in Overlay::update
    drawn,            \* the tags the overlay has drawn in this frame, up to evaluate's copy
    snapshot,         \* the kinds evaluate copied from the tag list
    flag_guard,       \* the holder of the capture flag's guard: Free or Ui
    calc_guard,       \* the holder of the calculator's guard: Free or Ui
    tags_poisoned,    \* the tag list's mutex was poisoned by a panic under its guard
    frame,            \* a captured frame handed to image_to_tags
    recognized,       \* what image_to_tags returned for it
    given_string,     \* a string handed to Tag::new
    created,          \* what Tag::new returned for it
    contours,         \* the contours found in a frame handed to detect_tag_boxes
    boxes             \* what detect_tag_boxes returned for them

calcVars == <<catalog, cpc, pool, ignore_tier_1, ignore_tier_2, ignore_tier_3, variations, results>>
loopVars == <<capture_active, window, pc, window_clone, pass_tags, guard, poisoned,
              tags_guard, off_publishers>>
uiVars == <<ui_pc, drawn, snapshot>>
guardVars == <<flag_guard, calc_guard, tags_poisoned>>
tagVars == <<frame, recognized, given_string, created, contours, boxes>>
vars == <<catalog, cpc, pool, ignore_tier_1, ignore_tier_2, ignore_tier_3, tags, variations, results,
          capture_active, window, pc, window_clone, pass_tags, guard, poisoned,
          tags_guard, off_publishers, ui_pc, drawn, snapshot, flag_guard, calc_guard,
          tags_poisoned, frame, recognized, given_string, created, contours, boxes>>

(***************************************************************************)
(* Bounds                                                                  *)
(***************************************************************************)
MaxTags == 2        \* longest tag list drawn for evaluate
MaxPool == 2        \* most records in a drawn catalog
MaxThreads == 2     \* detection threads spawned in one run
MaxWindows == 2     \* window mutexes created in one run
MaxPassTags == 1    \* most candidate rectangles in a frame a detection pass captures
MaxCandidates == 2  \* most candidate rectangles in a frame drawn for image_to_tags
MaxContours == 2    \* most contours in a frame drawn for detect_tag_boxes

(***************************************************************************)
(* Types                                                                   *)
(***************************************************************************)
Rarity == {"Tier1", "Tier2", "Tier3", "Tier4", "Tier5", "Tier6"}

\* enum TagType
TagType ==
    { "Medic", "Caster", "Vanguard", "Guard", "Defender", "Defense", "Supporter",
      "Melee", "Debuff", "FastRedeploy", "Shift", "Summon", "Support", "Survival",
      "Elemental", "Ranged", "DpRecovery", "Starter", "Slow", "AoE", "Sniper",
      "CrowdControl", "Healing", "DPS", "Nuker", "SeniorOperator", "Specialist",
      "Robot", "TopOperator" }

\* The kinds a detected tag may carry in the drawn inputs.
DetectedKinds == {"Ranged", "Survival", "TopOperator"}

\* UiTag: bounding_box stands for the rectangle with the screen offset applied.
UiTag == [tag_type : DetectedKinds, selected : BOOLEAN, bounding_box : Nat]

\* A catalog record. avatar is the record's avatar reference: "null" (none
\* given), "found" (the referenced image file exists) or "not_found".
Operator(id, rarity, tag_list, avatar) ==
    [id |-> id, rarity |-> rarity, tag_list |-> tag_list, avatar |-> avatar]

\* The catalog records the drawn catalogs are made of.
Operators ==
    { Operator("a", "Tier3", <<"Ranged", "Survival", "Melee">>, "found"),
      Operator("b", "Tier6", <<"Ranged", "TopOperator">>, "null"),
      Operator("c", "Tier1", <<"Ranged">>, "found"),
      Operator("d", "Tier2", <<>>, "found"),
      Operator("e", "Tier4", <<"Survival">>, "not_found") }

SeqsUpTo(S, n) == UNION { [1..k -> S] : k \in 0..n }

\* The tag lists drawn for evaluate: any kinds and selected flags, the i-th
\* tag in the i-th rectangle.
TagLists ==
    { [i \in 1..Len(f) |-> [tag_type |-> f[i].tag_type, selected |-> f[i].selected,
                             bounding_box |-> i]] :
        f \in SeqsUpTo([tag_type : DetectedKinds, selected : BOOLEAN], MaxTags) }

CatalogFiles ==
    { [status |-> "missing", records |-> <<>>],
      [status |-> "malformed", records |-> <<>>] }
    \cup { [status |-> "ok", records |-> r] : r \in SeqsUpTo(Operators, MaxPool) }

Contains(s, x) == \E i \in 1..Len(s) : s[i] = x

Range(s) == { s[i] : i \in 1..Len(s) }

(***************************************************************************)
(* types/operator.rs                                                       *)
(***************************************************************************)
\* What a plausible slip would make of matches_tags: the Tier6 test dropped.
MatchesTagsNoTopRule(op, variation) ==
    \A i \in 1..Len(variation) : Contains(op.tag_list, variation[i])

\* What a plausible slip would make of matches_tags: any() for all().
MatchesTagsAny(op, variation) ==
    IF op.rarity = "Tier6" /\ ~Contains(variation, "TopOperator")
    THEN FALSE
    ELSE \E i \in 1..Len(variation) : Contains(op.tag_list, variation[i])

MatchesTags(op, variation) ==
    IF op.rarity = "Tier6" /\ ~Contains(variation, "TopOperator")
    THEN FALSE
    ELSE \A i \in 1..Len(variation) : Contains(op.tag_list, variation[i])

\* deserialize_img: the avatar reference, or default_avatar when there is
\* none, names an image file under data/assets/charavatars; a file that cannot
\* be opened is an Err. The default asset is taken to be installed.
DeserializeImg(avatar) ==
    CASE avatar = "null"  -> [res |-> "Ok", image |-> "default_avatar.png"]
      [] avatar = "found" -> [res |-> "Ok", image |-> "own.png"]
      [] OTHER            -> [res |-> "Err", image |-> "none"]

\* serde's deserialization of one record: the avatar field through
\* deserialize_img.
DeserializeOperator(record) ==
    LET img == DeserializeImg(record.avatar)
    IN [res |-> img.res, op |-> [record EXCEPT !.avatar = img.image]]

\* load_operator_data: a file that cannot be opened is an Err (the ? on
\* File::open); content serde_json rejects, or a record serde cannot
\* deserialize, panics (the unwrap on from_reader).
LoadOperatorData(file) ==
    CASE file.status = "missing"   -> [res |-> "Err", ops |-> <<>>]
      [] file.status = "malformed" -> [res |-> "Panic", ops |-> <<>>]
      [] OTHER ->
            IF \E i \in 1..Len(file.records) : DeserializeOperator(file.records[i]).res = "Err"
            THEN [res |-> "Panic", ops |-> <<>>]
            ELSE [res |-> "Ok",
                  ops |-> [i \in 1..Len(file.records) |->
                              DeserializeOperator(file.records[i]).op]]

(***************************************************************************)
(* types/tag.rs                                                            *)
(***************************************************************************)
\* static TAGS_STRINGS: the vocabulary the recognizer matches against.
TAGS_STRINGS ==
    << "Medic", "Caster", "Vanguard", "Guard", "Defender", "Defense",
       "Supporter", "Melee", "Debuff", "Fast-Redeploy", "Shift", "Summon",
       "Support", "Survival", "Elemental", "Ranged", "Dp-Recovery",
       "Starter", "Slow", "AoE", "Sniper", "Crowd-Control", "Healing", "DPS",
       "Nuker", "Senior-Operator", "Specialist", "Robot", "Top-Operator" >>

\* What a plausible slip would make of the match in Tag::new: one arm per
\* vocabulary string and no other spelling.
TagTypeOfVocabulary(tag_string) ==
    LET kinds == << "Medic", "Caster", "Vanguard", "Guard", "Defender", "Defense",
                    "Supporter", "Melee", "Debuff", "FastRedeploy", "Shift", "Summon",
                    "Support", "Survival", "Elemental", "Ranged", "DpRecovery",
                    "Starter", "Slow", "AoE", "Sniper", "CrowdControl", "Healing",
                    "DPS", "Nuker", "SeniorOperator", "Specialist", "Robot",
                    "TopOperator" >>
    IN IF \E i \in 1..Len(TAGS_STRINGS) : TAGS_STRINGS[i] = tag_string
       THEN kinds[CHOOSE i \in 1..Len(TAGS_STRINGS) : TAGS_STRINGS[i] = tag_string]
       ELSE "InvalidTagString"

\* The match in Tag::new: the kind a string names, or InvalidTagString.
TagTypeOf(tag_string) ==
    CASE tag_string = "Medic" -> "Medic"
      [] tag_string = "Caster" -> "Caster"
      [] tag_string = "Vanguard" -> "Vanguard"
      [] tag_string = "Guard" -> "Guard"
      [] tag_string = "Defender" -> "Defender"
      [] tag_string = "Defense" -> "Defense"
      [] tag_string = "Supporter" -> "Supporter"
      [] tag_string = "Melee" -> "Melee"
      [] tag_string = "Debuff" -> "Debuff"
      [] tag_string \in {"Fast-Redeploy", "FastRedeploy", "Fast Redeploy"} -> "FastRedeploy"
      [] tag_string = "Shift" -> "Shift"
      [] tag_string = "Summon" -> "Summon"
      [] tag_string = "Support" -> "Support"
      [] tag_string = "Survival" -> "Survival"
      [] tag_string = "Elemental" -> "Elemental"
      [] tag_string = "Ranged" -> "Ranged"
      [] tag_string \in {"Dp-Recovery", "DpRecovery", "Dp Recovery"} -> "DpRecovery"
      [] tag_string = "Starter" -> "Starter"
      [] tag_string = "Slow" -> "Slow"
      [] tag_string = "AoE" -> "AoE"
      [] tag_string = "Sniper" -> "Sniper"
      [] tag_string \in {"Crowd-Control", "CrowdControl", "Crowd Control"} -> "CrowdControl"
      [] tag_string = "Healing" -> "Healing"
      [] tag_string = "DPS" -> "DPS"
      [] tag_string = "Nuker" -> "Nuker"
      [] tag_string \in {"SeniorOperator", "Senior-Operator", "Senior Operator"} -> "SeniorOperator"
      [] tag_string = "Specialist" -> "Specialist"
      [] tag_string = "Robot" -> "Robot"
      [] tag_string \in {"Top-Operator", "TopOperator", "Top Operator"} -> "TopOperator"
      [] OTHER -> "InvalidTagString"

\* Tag::new
TagNew(tag_string, selected, bounding_box) ==
    LET tag_type == TagTypeOf(tag_string)
    IN IF tag_type = "InvalidTagString"
       THEN [res |-> "Err", tag |-> <<>>]
       ELSE [res |-> "Ok",
             tag |-> [tag_type |-> tag_type, selected |-> selected,
                      bounding_box |-> bounding_box]]

\* What a plausible slip would make of to_string: the variant's name, as the
\* derived Debug prints it.
to_string_debug(kind) == kind

\* impl ToString for TagType
to_string(kind) ==
    CASE kind = "Medic" -> "Medic"
      [] kind = "Caster" -> "Caster"
      [] kind = "Vanguard" -> "Vanguard"
      [] kind = "Guard" -> "Guard"
      [] kind = "Defender" -> "Defender"
      [] kind = "Defense" -> "Defense"
      [] kind = "Supporter" -> "Supporter"
      [] kind = "Melee" -> "Melee"
      [] kind = "Debuff" -> "Debuff"
      [] kind = "FastRedeploy" -> "Fast-Redeploy"
      [] kind = "Shift" -> "Shift"
      [] kind = "Summon" -> "Summon"
      [] kind = "Support" -> "Support"
      [] kind = "Survival" -> "Survival"
      [] kind = "Elemental" -> "Elemental"
      [] kind = "Ranged" -> "Ranged"
      [] kind = "DpRecovery" -> "Dp-Recovery"
      [] kind = "Starter" -> "Starter"
      [] kind = "Slow" -> "Slow"
      [] kind = "AoE" -> "AoE"
      [] kind = "Sniper" -> "Sniper"
      [] kind = "CrowdControl" -> "Crowd-Control"
      [] kind = "Healing" -> "Healing"
      [] kind = "DPS" -> "DPS"
      [] kind = "Nuker" -> "Nuker"
      [] kind = "SeniorOperator" -> "Senior-Operator"
      [] kind = "Specialist" -> "Specialist"
      [] kind = "Robot" -> "Robot"
      [] kind = "TopOperator" -> "Top-Operator"

\* The strings drawn for Tag::new: the vocabulary, the other spellings of
\* the multi-word kinds, and strings that are in no arm of the match.
TagStrings ==
    { TAGS_STRINGS[i] : i \in 1..Len(TAGS_STRINGS) }
    \cup { "FastRedeploy", "Fast Redeploy", "DpRecovery", "Dp Recovery",
           "CrowdControl", "Crowd Control", "SeniorOperator", "Senior Operator",
           "TopOperator", "Top Operator" }
    \cup { "", "ranged", "RANGED", "top-operator", "Top_Operator", "Crowd  Control",
           "Rangd", "Operator" }

\* MIN_TAG_BOX_SIZE and MAX_TAG_BOX_SIZE, in thousandths of the image area.
MIN_TAG_BOX_SIZE == 5

MAX_TAG_BOX_SIZE == 250

\* Size::area and Rect::area
Area(size) == size.width * size.height

\* The size of the frames drawn for detect_tag_boxes: of its area of 400, 2
\* is 0.5% and 100 is 25%.
img_size == [width |-> 20, height |-> 20]

\* The bounding rectangles of the drawn contours: areas 1, 2, 2, 20, 99, 100
\* and 400.
BoundingRects ==
    { [width |-> 1, height |-> 1], [width |-> 2, height |-> 1],
      [width |-> 1, height |-> 2], [width |-> 4, height |-> 5],
      [width |-> 9, height |-> 11], [width |-> 10, height |-> 10],
      [width |-> 20, height |-> 20] }

\* A contour as detect_tag_boxes meets it: the number of vertices of its
\* approximating polygon (0 when approx_poly_dp failed: its error is dropped
\* and the polygon stays empty) and that polygon's bounding rectangle.
Contour == [vertices : {0, 3, 4, 5}, bounding : BoundingRects]

ContourLists(n) == UNION { [1..k -> Contour] : k \in 0..n }

\* What a plausible slip would make of the area test: >= for > at the upper
\* bound.
detect_tag_boxes_inclusive(size, found, primitives) ==
    LET Emitted(contour) ==
            /\ contour.vertices = 4
            /\ MAX_TAG_BOX_SIZE * Area(size) >= 1000 * Area(contour.bounding)
            /\ 1000 * Area(contour.bounding) >= MIN_TAG_BOX_SIZE * Area(size)
        kept == SelectSeq(found, Emitted)
    IN IF primitives = "Ok"
       THEN [res |-> "Ok", rects |-> [k \in 1..Len(kept) |-> kept[k].bounding]]
       ELSE [res |-> primitives, rects |-> <<>>]

\* detect_tag_boxes, the filter_map over the contours: the bounding
\* rectangle of a polygon of 4 vertices is emitted when
\* MAX_TAG_BOX_SIZE * image area > its area >= MIN_TAG_BOX_SIZE * image area.
\* The code compares in f64; for areas that fit an i32 the products round to
\* the side of the integer area the exact products are on, so the
\* comparison is the exact one, written here in thousandths.  primitives
\* is what the image primitives did: "Ok", "Err" when threshold, size or
\* find_contours failed (the ? returns the error), "Panic" when arc_length
\* or bounding_rect failed (unwrap).
detect_tag_boxes(size, found, primitives) ==
    LET Emitted(contour) ==
            /\ contour.vertices = 4
            /\ MAX_TAG_BOX_SIZE * Area(size) > 1000 * Area(contour.bounding)
            /\ 1000 * Area(contour.bounding) >= MIN_TAG_BOX_SIZE * Area(size)
        kept == SelectSeq(found, Emitted)
    IN IF primitives = "Ok"
       THEN [res |-> "Ok", rects |-> [k \in 1..Len(kept) |-> kept[k].bounding]]
       ELSE [res |-> primitives, rects |-> <<>>]

\* What the text recognizer may read in a candidate rectangle.
OcrTexts == {"Rangd", "Top Operator", "ok", "Recruit"}

\* A candidate rectangle of a captured frame, as the recognition meets it:
\* its rectangle, what goes wrong on it ("roi": it cannot be cropped, "ocr":
\* the OCR engine fails, "hsv": the selection test fails, "none"), the text
\* the OCR engine reads in it and whether it is drawn as selected.
Candidate(rect) ==
    [rect : {rect}, fault : {"none", "roi", "ocr", "hsv"}, text : OcrTexts,
     selected : BOOLEAN]

\* The candidate lists of length n, the i-th candidate in the i-th rectangle.
CandidateLists(n) ==
    UNION { { recs \in [1..k -> UNION { Candidate(i) : i \in 1..k }] :
                \A i \in 1..k : recs[i].rect = i } : k \in 0..n }

\* A captured frame: detect is what detect_tag_boxes returns on it.
Images(n) ==
    { [detect |-> "Err", recs |-> <<>>] }
    \cup { [detect |-> "Ok", recs |-> recs] : recs \in CandidateLists(n) }

\* difflib's get_close_matches(word, TAGS_STRINGS, 1, 0.5): the best of the
\* vocabulary strings whose ratio with the word is at least 0.5, if any. For
\* the texts of OcrTexts: "Rangd" is closest to "Ranged" (0.91),
\* "Top Operator" to "Top-Operator" (0.92), and nothing reaches 0.5 for "ok"
\* (0.40) and "Recruit" (0.47). A vocabulary string is its own best match.
get_close_matches(word) ==
    CASE word \in { TAGS_STRINGS[i] : i \in 1..Len(TAGS_STRINGS) } -> <<word>>
      [] word = "Rangd" -> <<"Ranged">>
      [] word = "Top Operator" -> <<"Top-Operator">>
      [] OTHER -> <<>>

\* What a plausible slip would make of tag_button_to_string: no close match
\* reported as an error.
tag_button_to_string_strict(rec) ==
    IF rec.fault \in {"roi", "ocr"} THEN [res |-> "Err", string |-> ""]
    ELSE IF Len(rec.text) < 3 THEN [res |-> "None", string |-> ""]
    ELSE LET a == get_close_matches(rec.text)
         IN IF a = <<>> THEN [res |-> "Err", string |-> ""]
            ELSE [res |-> "Some", string |-> a[1]]

\* tag_button_to_string: Err when the rectangle cannot be cropped or the OCR
\* engine fails, None for a text shorter than 3 or without a close match in
\* the vocabulary, else the closest vocabulary string.
tag_button_to_string(rec) ==
    IF rec.fault \in {"roi", "ocr"} THEN [res |-> "Err", string |-> ""]
    ELSE IF Len(rec.text) < 3 THEN [res |-> "None", string |-> ""]
    ELSE LET a == get_close_matches(rec.text)
         IN IF a = <<>> THEN [res |-> "None", string |-> ""]
            ELSE [res |-> "Some", string |-> a[1]]

\* is_tag_region_selected
is_tag_region_selected(rec) ==
    IF rec.fault = "hsv" THEN [res |-> "Err", value |-> FALSE]
    ELSE [res |-> "Ok", value |-> rec.selected]

\* The for loop of image_to_tags from the i-th rectangle on, tags being the
\* vector built so far: an Err of tag_button_to_string is unwrapped (a
\* panic), None skips the rectangle, an Err of is_tag_region_selected is
\* returned, and a string Tag::new rejects adds nothing.
RECURSIVE ForRecs(_, _, _)
ForRecs(recs, i, tags_so_far) ==
    IF i > Len(recs) THEN [res |-> "Ok", tags |-> tags_so_far]
    ELSE LET tag_string == tag_button_to_string(recs[i])
         IN CASE tag_string.res = "Err" -> [res |-> "Panic", tags |-> <<>>]
              [] tag_string.res = "None" -> ForRecs(recs, i + 1, tags_so_far)
              [] OTHER ->
                    LET is_selected == is_tag_region_selected(recs[i])
                        tag == TagNew(tag_string.string, is_selected.value, recs[i].rect)
                    IN IF is_selected.res = "Err" THEN [res |-> "Err", tags |-> <<>>]
                       ELSE IF tag.res = "Ok"
                            THEN ForRecs(recs, i + 1, Append(tags_so_far, tag.tag))
                            ELSE ForRecs(recs, i + 1, tags_so_far)

\* image_to_tags
image_to_tags(image) ==
    IF image.detect = "Err" THEN [res |-> "Err", tags |-> <<>>]
    ELSE ForRecs(image.recs, 1, <<>>)

(***************************************************************************)
(* core/calculator.rs                                                      *)
(***************************************************************************)
\* itertools' combinations(len): the len-element selections by position, in
\* lexicographic order of the positions.
RECURSIVE Combinations(_, _)
Combinations(s, len) ==
    IF len = 0 THEN << <<>> >>
    ELSE IF Len(s) < len THEN << >>
    ELSE LET with == Combinations(Tail(s), len - 1)
             without == Combinations(Tail(s), len)
         IN [i \in 1..Len(with) |-> <<Head(s)>> \o with[i]] \o without

RECURSIVE VariationsFrom(_, _)
VariationsFrom(kinds, len) ==
    IF len > Len(kinds) THEN << >>
    ELSE Combinations(kinds, len) \o VariationsFrom(kinds, len + 1)

\* What a plausible slip would make of variations: 1..len for 1..=len.
VariationsExclusive(kinds) ==
    LET RECURSIVE Upto(_)
        Upto(len) == IF len >= Len(kinds) THEN << >>
                     ELSE Combinations(kinds, len) \o Upto(len + 1)
    IN Upto(1)

Variations(kinds) == VariationsFrom(kinds, 1)

\* What the tier filter was likely meant to be: one exclusion per flag.
TierSkippedPerFlag(op, i1, i2, i3) ==
    \/ (i1 /\ op.rarity = "Tier1")
    \/ (i2 /\ op.rarity = "Tier2")
    \/ (i3 /\ op.rarity = "Tier3")

\* The condition of the `continue` in evaluate's scan of the pool.
TierSkipped(op, i1, i2, i3) ==
    /\ (i1 /\ op.rarity = "Tier1")
    /\ (i2 /\ op.rarity = "Tier2")
    /\ (i3 /\ op.rarity = "Tier3")

\* What a plausible slip would make of the scan of the pool: find for
\* filter, the first match only.
MatchedOpsFirst(p, i1, i2, i3, variation) ==
    LET Keep(i) == ~TierSkipped(p[i], i1, i2, i3) /\ MatchesTags(p[i], variation)
        all == SelectSeq([i \in 1..Len(p) |-> i], Keep)
    IN IF all = <<>> THEN <<>> ELSE <<all[1]>>

\* The operators evaluate collects for one variation: references into the
\* pool, here the positions, in pool order.
MatchedOps(p, i1, i2, i3, variation) ==
    LET Keep(i) == ~TierSkipped(p[i], i1, i2, i3) /\ MatchesTags(p[i], variation)
    IN SelectSeq([i \in 1..Len(p) |-> i], Keep)

CalcResult(variation, ops) == [tag_variation |-> variation, obtainable_operators |-> ops]

\* What a plausible slip would make of the copy of the kinds: the selected
\* tags only.
TagKindsSelected(list) ==
    LET IsSelected(tag) == tag.selected
        chosen == SelectSeq(list, IsSelected)
    IN [i \in 1..Len(chosen) |-> chosen[i].tag_type]

TagKinds(list) == [i \in 1..Len(list) |-> list[i].tag_type]

\* What a plausible slip would make of evaluate: empty matches emitted too.
EvaluateKeepEmpty(p, i1, i2, i3, list) ==
    LET variety == Variations(TagKinds(list))
    IN [j \in 1..Len(variety) |->
            CalcResult(variety[j], MatchedOps(p, i1, i2, i3, variety[j]))]

\* evaluate after the copy of the kinds: the variations, the scan of the
\* pool for each, and the results with a match.
EvaluateKinds(p, i1, i2, i3, kinds) ==
    LET variety == Variations(kinds)
        all == [j \in 1..Len(variety) |->
                   CalcResult(variety[j], MatchedOps(p, i1, i2, i3, variety[j]))]
        Some(r) == Len(r.obtainable_operators) # 0
    IN SelectSeq(all, Some)

Evaluate(p, i1, i2, i3, list) == EvaluateKinds(p, i1, i2, i3, TagKinds(list))

(***************************************************************************)
(* SpecCalc: the calculator applied to drawn inputs                         *)
(***************************************************************************)
\* No thread holds the guard of a mutex.
Free == 0

\* The UI thread, as a holder of a guard.
Ui == MaxThreads + 1

\* No frame has been handed to image_to_tags.
NoFrame ==
    /\ frame = [detect |-> "Ok", recs |-> <<>>]
    /\ recognized = [res |-> "Pending", tags |-> <<>>]

\* No string has been handed to Tag::new.
NoTagString ==
    /\ given_string = ""
    /\ created = [res |-> "Idle", tag |-> <<>>]

\* No contours have been handed to detect_tag_boxes.
NoContours ==
    /\ contours = <<>>
    /\ boxes = [res |-> "Idle", rects |-> <<>>]

TagsIdle == NoFrame /\ NoTagString /\ NoContours

LoopInit ==
    /\ capture_active = FALSE
    /\ window = 0
    /\ pc = [t \in 1..MaxThreads |-> "idle"]
    /\ window_clone = [t \in 1..MaxThreads |-> 0]
    /\ pass_tags = [t \in 1..MaxThreads |-> <<>>]
    /\ guard = [w \in 1..MaxWindows |-> 0]
    /\ poisoned = {}
    /\ tags_guard = Free
    /\ off_publishers = {}
    /\ ui_pc = "idle"
    /\ drawn = <<>>
    /\ snapshot = <<>>
    /\ flag_guard = Free
    /\ calc_guard = Free
    /\ tags_poisoned = FALSE

InitCalc ==
    /\ catalog \in CatalogFiles
    /\ tags \in TagLists
    /\ cpc = "start"
    /\ pool = <<>>
    /\ ignore_tier_1 = FALSE
    /\ ignore_tier_2 = FALSE
    /\ ignore_tier_3 = FALSE
    /\ variations = <<>>
    /\ results = <<>>
    /\ LoopInit
    /\ TagsIdle

\* Calculator::new
New ==
    /\ cpc = "start"
    /\ LET loaded == LoadOperatorData(catalog)
       IN IF loaded.res = "Panic"
          THEN /\ cpc' = "panicked"
               /\ UNCHANGED <<pool, ignore_tier_1, ignore_tier_2, ignore_tier_3>>
          ELSE /\ cpc' = "ready"
               /\ pool' = IF loaded.res = "Ok" THEN loaded.ops ELSE <<>>
               /\ ignore_tier_1' = FALSE
               /\ ignore_tier_2' = FALSE
               /\ ignore_tier_3' = FALSE
    /\ UNCHANGED <<catalog, tags, variations, results>>
    /\ UNCHANGED loopVars
    /\ UNCHANGED uiVars
    /\ UNCHANGED tagVars
    /\ UNCHANGED guardVars

\* The three flag fields take values: the struct declares them and evaluate
\* reads them; new sets all three false.
IgnoreTiers ==
    /\ cpc = "ready"
    /\ \E i1 \in BOOLEAN, i2 \in BOOLEAN, i3 \in BOOLEAN :
          /\ ignore_tier_1' = i1
          /\ ignore_tier_2' = i2
          /\ ignore_tier_3' = i3
    /\ cpc' = "flagged"
    /\ UNCHANGED <<catalog, pool, tags, variations, results>>
    /\ UNCHANGED loopVars
    /\ UNCHANGED uiVars
    /\ UNCHANGED tagVars
    /\ UNCHANGED guardVars

\* What a plausible slip would make of evaluate: the tag list taken out of
\* the shared slot instead of read.
EvaluateCallTaking ==
    /\ cpc \in {"ready", "flagged", "evaluated"}
    /\ variations' = Variations(TagKinds(tags))
    /\ results' = Evaluate(pool, ignore_tier_1, ignore_tier_2, ignore_tier_3, tags)
    /\ cpc' = IF cpc = "evaluated" THEN "reevaluated" ELSE "evaluated"
    /\ tags' = <<>>
    /\ UNCHANGED <<catalog, pool, ignore_tier_1, ignore_tier_2, ignore_tier_3>>
    /\ UNCHANGED loopVars
    /\ UNCHANGED uiVars
    /\ UNCHANGED tagVars
    /\ UNCHANGED guardVars

\* Calculator::evaluate on the shared tag list, a first and a second time.
EvaluateCall ==
    /\ cpc \in {"ready", "flagged", "evaluated"}
    /\ variations' = Variations(TagKinds(tags))
    /\ results' = Evaluate(pool, ignore_tier_1, ignore_tier_2, ignore_tier_3, tags)
    /\ cpc' = IF cpc = "evaluated" THEN "reevaluated" ELSE "evaluated"
    /\ UNCHANGED <<catalog, pool, ignore_tier_1, ignore_tier_2, ignore_tier_3, tags>>
    /\ UNCHANGED loopVars
    /\ UNCHANGED uiVars
    /\ UNCHANGED tagVars
    /\ UNCHANGED guardVars

NextCalc == New \/ IgnoreTiers \/ EvaluateCall

SpecCalc == InitCalc /\ [][NextCalc]_vars

(***************************************************************************)
(* SpecTags: image_to_tags, Tag::new and detect_tag_boxes applied to drawn  *)
(* inputs                                                                  *)
(***************************************************************************)
InitTags ==
    /\ \/ /\ frame \in Images(MaxCandidates)
          /\ recognized = [res |-> "Pending", tags |-> <<>>]
          /\ NoTagString
          /\ NoContours
       \/ /\ given_string \in TagStrings
          /\ created = [res |-> "Pending", tag |-> <<>>]
          /\ NoFrame
          /\ NoContours
       \/ /\ contours \in ContourLists(MaxContours)
          /\ boxes = [res |-> "Pending", rects |-> <<>>]
          /\ NoFrame
          /\ NoTagString
    /\ catalog = [status |-> "missing", records |-> <<>>]
    /\ cpc = "start"
    /\ pool = <<>>
    /\ ignore_tier_1 = FALSE
    /\ ignore_tier_2 = FALSE
    /\ ignore_tier_3 = FALSE
    /\ tags = <<>>
    /\ variations = <<>>
    /\ results = <<>>
    /\ LoopInit

\* image_to_tags on the drawn frame.
ImageToTagsCall ==
    /\ recognized.res = "Pending"
    /\ recognized' = image_to_tags(frame)
    /\ UNCHANGED <<frame, given_string, created, contours, boxes, tags>>
    /\ UNCHANGED calcVars
    /\ UNCHANGED loopVars
    /\ UNCHANGED uiVars
    /\ UNCHANGED guardVars

\* Tag::new on the drawn string, for an unselected tag in rectangle 1.
TagNewCall ==
    /\ created.res = "Pending"
    /\ created' = TagNew(given_string, FALSE, 1)
    /\ UNCHANGED <<frame, recognized, given_string, contours, boxes, tags>>
    /\ UNCHANGED calcVars
    /\ UNCHANGED loopVars
    /\ UNCHANGED uiVars
    /\ UNCHANGED guardVars

\* detect_tag_boxes on the drawn contours.
DetectTagBoxesCall ==
    /\ boxes.res = "Pending"
    /\ \E primitives \in {"Ok", "Err", "Panic"} :
          boxes' = detect_tag_boxes(img_size, contours, primitives)
    /\ UNCHANGED <<frame, recognized, given_string, created, contours, tags>>
    /\ UNCHANGED calcVars
    /\ UNCHANGED loopVars
    /\ UNCHANGED uiVars
    /\ UNCHANGED guardVars

NextTags == ImageToTagsCall \/ TagNewCall \/ DetectTagBoxesCall

SpecTags == InitTags /\ [][NextTags]_vars

(***************************************************************************)
(* Spec: ui/menu.rs, the start button and the detection loops               *)
(***************************************************************************)
Threads == 1..MaxThreads

Mutexes == 1..MaxWindows

\* UiTag::from_tag: the tag's kind, selected flag and rectangle.
FromTag(tag) ==
    [tag_type |-> tag.tag_type, selected |-> tag.selected,
     bounding_box |-> tag.bounding_box]

\* The frames a detection pass may capture: each candidate reads as Ranged
\* or as nothing, none is selected, and any failure may strike.
PassImages ==
    { image \in Images(MaxPassTags) :
        \A i \in 1..Len(image.recs) :
            image.recs[i].text \in {"Rangd", "ok"} /\ ~image.recs[i].selected }

\* What image_to_tags may return for the frame a detection pass captures.
PassOutcomes == { image_to_tags(image) : image \in PassImages }

\* The catalog the running program has loaded.
InstalledRecords ==
    << Operator("a", "Tier3", <<"Ranged", "Survival", "Melee">>, "found"),
       Operator("b", "Tier6", <<"Ranged", "TopOperator">>, "null") >>

\* The state after MainMenu::new and Calculator::new: no window selected,
\* capture off, an empty tag list, the catalog loaded.
Init ==
    /\ catalog = [status |-> "ok", records |-> InstalledRecords]
    /\ cpc = "ready"
    /\ pool = LoadOperatorData(catalog).ops
    /\ ignore_tier_1 = FALSE
    /\ ignore_tier_2 = FALSE
    /\ ignore_tier_3 = FALSE
    /\ tags = <<>>
    /\ variations = <<>>
    /\ results = <<>>
    /\ LoopInit
    /\ TagsIdle

\* MainMenu::update, its first statement, with a window selected:
\* window.lock().unwrap().title(): the UI waits while a detection thread
\* holds the guard, panics on a poisoned mutex, and otherwise reads the title
\* under a guard that is dropped with the statement.
ReadTitle ==
    /\ ui_pc = "idle"
    /\ window # 0
    /\ guard[window] = 0
    /\ ui_pc' = IF window \in poisoned THEN "panicked" ELSE "idle"
    /\ UNCHANGED <<drawn, snapshot>>
    /\ UNCHANGED loopVars
    /\ UNCHANGED <<tags>>
    /\ UNCHANGED calcVars
    /\ UNCHANGED tagVars
    /\ UNCHANGED guardVars

\* MainMenu::update, the end of the frame: a window whose title is the
\* selected one is wrapped in a new Arc<Mutex<Window>> and stored.
AssignWindow ==
    /\ ui_pc = "idle"
    /\ window < MaxWindows
    /\ window' = window + 1
    /\ UNCHANGED <<capture_active, pc, window_clone, pass_tags, guard, poisoned>>
    /\ UNCHANGED <<tags, tags_guard, off_publishers>>
    /\ UNCHANGED calcVars
    /\ UNCHANGED uiVars
    /\ UNCHANGED tagVars
    /\ UNCHANGED guardVars

\* MainMenu::update, the start button: self.capture_active.lock().unwrap()
\* is bound to active, which lives to the end of the block; under this guard
\* the flag is flipped and start_capture is called, which returns early when
\* no window is selected and otherwise spawns a detection thread holding
\* clones of the flag, the current window mutex and the tag list.
StartButtonClicked ==
    /\ ui_pc = "idle"
    /\ flag_guard = Free
    /\ flag_guard' = Ui
    /\ ui_pc' = "spawned"
    /\ capture_active' = ~capture_active
    /\ off_publishers' = {}
    /\ IF window = 0
       THEN UNCHANGED <<pc, window_clone>>
       ELSE \E t \in Threads :
               /\ pc[t] = "idle"
               /\ \A u \in Threads : u < t => pc[u] # "idle"
               /\ pc' = [pc EXCEPT ![t] = "check"]
               /\ window_clone' = [window_clone EXCEPT ![t] = window]
    /\ UNCHANGED <<window, pass_tags, guard, poisoned>>
    /\ UNCHANGED <<tags, tags_guard>>
    /\ UNCHANGED calcVars
    /\ UNCHANGED <<drawn, snapshot>>
    /\ UNCHANGED tagVars
    /\ UNCHANGED <<calc_guard, tags_poisoned>>

\* The block of the click ends: active, the flag's guard, is dropped.
StartButtonReturn ==
    /\ ui_pc = "spawned"
    /\ flag_guard' = Free
    /\ ui_pc' = "idle"
    /\ UNCHANGED <<drawn, snapshot>>
    /\ UNCHANGED <<calc_guard, tags_poisoned>>
    /\ UNCHANGED loopVars
    /\ UNCHANGED <<tags>>
    /\ UNCHANGED calcVars
    /\ UNCHANGED tagVars

\* Overlay::update, the head of the loop over the tags:
\* tags_clone.lock().unwrap() is taken and its guard lives to the loop's end;
\* on a poisoned mutex the unwrap panics.
OverlayLockTags ==
    /\ ui_pc = "idle"
    /\ tags_guard = Free
    /\ tags_guard' = IF tags_poisoned THEN Free ELSE Ui
    /\ ui_pc' = IF tags_poisoned THEN "panicked" ELSE "draw"
    /\ UNCHANGED <<drawn, snapshot>>
    /\ UNCHANGED <<capture_active, window, pc, window_clone, pass_tags, guard, poisoned>>
    /\ UNCHANGED <<tags, off_publishers>>
    /\ UNCHANGED calcVars
    /\ UNCHANGED tagVars
    /\ UNCHANGED guardVars

\* One turn of the loop over the tags: the next tag is drawn.
OverlayDrawTag ==
    /\ ui_pc = "draw"
    /\ Len(drawn) < Len(tags)
    /\ drawn' = Append(drawn, tags[Len(drawn) + 1])
    /\ UNCHANGED <<ui_pc, snapshot>>
    /\ UNCHANGED loopVars
    /\ UNCHANGED <<tags>>
    /\ UNCHANGED calcVars
    /\ UNCHANGED tagVars
    /\ UNCHANGED guardVars

\* What a plausible slip would make of the loop's end: the guard bound to a
\* name of the enclosing block and so alive past the loop.
OverlayDrawDoneHolding ==
    /\ ui_pc = "draw"
    /\ Len(drawn) >= Len(tags)
    /\ calc_guard' = Ui
    /\ ui_pc' = "evaluate"
    /\ UNCHANGED <<drawn, snapshot>>
    /\ UNCHANGED <<flag_guard, tags_poisoned>>
    /\ UNCHANGED loopVars
    /\ UNCHANGED <<tags>>
    /\ UNCHANGED calcVars
    /\ UNCHANGED tagVars

\* The loop over the tags ends and the guard is dropped; what was drawn stays
\* on the screen. The head of the loop over the results follows:
\* calc_clone.lock().unwrap(), which no other thread ever takes, is held to
\* that loop's end, and evaluate is called under it.
OverlayDrawDone ==
    /\ ui_pc = "draw"
    /\ Len(drawn) >= Len(tags)
    /\ tags_guard' = Free
    /\ calc_guard' = Ui
    /\ ui_pc' = "evaluate"
    /\ UNCHANGED <<drawn, snapshot>>
    /\ UNCHANGED <<capture_active, window, pc, window_clone, pass_tags, guard, poisoned>>
    /\ UNCHANGED <<tags, off_publishers>>
    /\ UNCHANGED calcVars
    /\ UNCHANGED tagVars
    /\ UNCHANGED <<flag_guard, tags_poisoned>>

\* Calculator::evaluate, tags.lock().unwrap(); on a poisoned mutex the unwrap
\* panics.
EvaluateLockTags ==
    /\ ui_pc = "evaluate"
    /\ tags_guard = Free
    /\ tags_guard' = IF tags_poisoned THEN Free ELSE Ui
    /\ ui_pc' = IF tags_poisoned THEN "panicked" ELSE "copy"
    /\ UNCHANGED <<drawn, snapshot>>
    /\ UNCHANGED <<capture_active, window, pc, window_clone, pass_tags, guard, poisoned>>
    /\ UNCHANGED <<tags, off_publishers>>
    /\ UNCHANGED calcVars
    /\ UNCHANGED tagVars
    /\ UNCHANGED guardVars

\* What a plausible slip would make of the copy: the guard bound to a name
\* and so alive to the end of evaluate.
EvaluateCopyHolding ==
    /\ ui_pc = "copy"
    /\ snapshot' = TagKinds(tags)
    /\ ui_pc' = "compute"
    /\ drawn' = <<>>
    /\ UNCHANGED loopVars
    /\ UNCHANGED <<tags>>
    /\ UNCHANGED calcVars
    /\ UNCHANGED tagVars
    /\ UNCHANGED guardVars

\* Calculator::evaluate, .iter().map(|t| t.tag_type().clone()).collect(): the
\* kinds are copied and the guard, a temporary, is dropped with the statement.
\* What the frame's drawing loop drew is followed up to this copy.
EvaluateCopy ==
    /\ ui_pc = "copy"
    /\ snapshot' = TagKinds(tags)
    /\ tags_guard' = Free
    /\ ui_pc' = "compute"
    /\ drawn' = <<>>
    /\ UNCHANGED <<capture_active, window, pc, window_clone, pass_tags, guard, poisoned>>
    /\ UNCHANGED <<tags, off_publishers>>
    /\ UNCHANGED calcVars
    /\ UNCHANGED tagVars
    /\ UNCHANGED guardVars

\* What a plausible slip would make of evaluate: the shared list read again
\* for the scan.
EvaluateComputeRereading ==
    /\ ui_pc = "compute"
    /\ variations' = Variations(TagKinds(tags))
    /\ results' = EvaluateKinds(pool, ignore_tier_1, ignore_tier_2, ignore_tier_3, TagKinds(tags))
    /\ ui_pc' = "computed"
    /\ UNCHANGED <<drawn, snapshot>>
    /\ UNCHANGED <<catalog, cpc, pool, ignore_tier_1, ignore_tier_2, ignore_tier_3>>
    /\ UNCHANGED loopVars
    /\ UNCHANGED <<tags>>
    /\ UNCHANGED tagVars
    /\ UNCHANGED guardVars

\* Calculator::evaluate, the rest: the variations of the copied kinds and the
\* results, which the overlay then lists.
EvaluateCompute ==
    /\ ui_pc = "compute"
    /\ variations' = Variations(snapshot)
    /\ results' = EvaluateKinds(pool, ignore_tier_1, ignore_tier_2, ignore_tier_3, snapshot)
    /\ ui_pc' = "computed"
    /\ UNCHANGED <<drawn, snapshot>>
    /\ UNCHANGED <<catalog, cpc, pool, ignore_tier_1, ignore_tier_2, ignore_tier_3>>
    /\ UNCHANGED loopVars
    /\ UNCHANGED <<tags>>
    /\ UNCHANGED tagVars
    /\ UNCHANGED guardVars

\* Overlay::update returns: the loop over the results has ended, the
\* calculator's guard, the results and the copy are dropped, and the frame is
\* over.
OverlayDone ==
    /\ ui_pc = "computed"
    /\ variations' = <<>>
    /\ results' = <<>>
    /\ snapshot' = <<>>
    /\ calc_guard' = Free
    /\ UNCHANGED <<drawn>>
    /\ ui_pc' = "idle"
    /\ UNCHANGED <<flag_guard, tags_poisoned>>
    /\ UNCHANGED <<catalog, cpc, pool, ignore_tier_1, ignore_tier_2, ignore_tier_3>>
    /\ UNCHANGED loopVars
    /\ UNCHANGED <<tags>>
    /\ UNCHANGED tagVars

OverlayUpdate ==
    \/ OverlayLockTags
    \/ OverlayDrawTag
    \/ OverlayDrawDone
    \/ EvaluateLockTags
    \/ EvaluateCopy
    \/ EvaluateCompute
    \/ OverlayDone

\* A panic of the detection thread t while it holds its window guard: the
\* thread ends, every guard it holds is dropped and the mutex of each is
\* poisoned.
PanicUnderWindowGuard(t, cause) ==
    /\ pc' = [pc EXCEPT ![t] = cause]
    /\ guard' = [guard EXCEPT ![window_clone[t]] = 0]
    /\ poisoned' = poisoned \cup {window_clone[t]}
    /\ pass_tags' = [pass_tags EXCEPT ![t] = <<>>]
    /\ tags_guard' = IF tags_guard = t THEN Free ELSE tags_guard
    /\ tags_poisoned' = (tags_poisoned \/ tags_guard = t)
    /\ UNCHANGED <<flag_guard, calc_guard>>

\* What a plausible slip would make of the loop's head: the flag not read.
CheckRunningAlways(t) ==
    /\ pc[t] = "check"
    /\ pc' = [pc EXCEPT ![t] = "sleep"]
    /\ UNCHANGED <<capture_active, window, window_clone, pass_tags, guard, poisoned>>
    /\ UNCHANGED <<tags, tags_guard, off_publishers>>
    /\ UNCHANGED calcVars
    /\ UNCHANGED uiVars
    /\ UNCHANGED tagVars
    /\ UNCHANGED guardVars

\* while *running.lock().unwrap(): the flag is read under its guard, which
\* is dropped before the body runs.
CheckRunning(t) ==
    /\ pc[t] = "check"
    /\ flag_guard = Free
    /\ pc' = [pc EXCEPT ![t] = IF capture_active THEN "sleep" ELSE "exited"]
    /\ UNCHANGED <<capture_active, window, window_clone, pass_tags, guard, poisoned>>
    /\ UNCHANGED <<tags, tags_guard, off_publishers>>
    /\ UNCHANGED calcVars
    /\ UNCHANGED uiVars
    /\ UNCHANGED tagVars
    /\ UNCHANGED guardVars

\* thread::sleep ends and window_clone.lock().unwrap() is taken: the thread
\* waits while another holds the guard, and panics on a poisoned mutex.
LockWindow(t) ==
    /\ pc[t] = "sleep"
    /\ guard[window_clone[t]] = 0
    /\ IF window_clone[t] \in poisoned
       THEN /\ pc' = [pc EXCEPT ![t] = "panicked_poisoned"]
            /\ UNCHANGED guard
       ELSE /\ pc' = [pc EXCEPT ![t] = "locked"]
            /\ guard' = [guard EXCEPT ![window_clone[t]] = t]
    /\ UNCHANGED <<capture_active, window, window_clone, pass_tags, poisoned>>
    /\ UNCHANGED <<tags, tags_guard, off_publishers>>
    /\ UNCHANGED calcVars
    /\ UNCHANGED uiVars
    /\ UNCHANGED tagVars
    /\ UNCHANGED guardVars

\* window.is_minimized().unwrap(): the window is minimized, or shown, or the
\* query fails, which panics.
IsMinimized(t) ==
    /\ pc[t] = "locked"
    /\ \E answer \in {"minimized", "shown", "error"} :
          CASE answer = "minimized" ->
                  /\ pc' = [pc EXCEPT ![t] = "minimized"]
                  /\ UNCHANGED <<guard, pass_tags, poisoned, tags_guard>>
                  /\ UNCHANGED guardVars
            [] answer = "shown" ->
                  /\ pc' = [pc EXCEPT ![t] = "capture"]
                  /\ UNCHANGED <<guard, pass_tags, poisoned, tags_guard>>
                  /\ UNCHANGED guardVars
            [] OTHER -> PanicUnderWindowGuard(t, "panicked_minimized")
    /\ UNCHANGED <<capture_active, window, window_clone>>
    /\ UNCHANGED <<tags, off_publishers>>
    /\ UNCHANGED calcVars
    /\ UNCHANGED uiVars
    /\ UNCHANGED tagVars

\* What a plausible slip would make of the minimized branch: no continue, so
\* the iteration goes on to the capture.
ContinueFallingThrough(t) ==
    /\ pc[t] = "minimized"
    /\ pc' = [pc EXCEPT ![t] = "capture"]
    /\ UNCHANGED <<capture_active, window, window_clone, pass_tags, guard, poisoned>>
    /\ UNCHANGED <<tags, tags_guard, off_publishers>>
    /\ UNCHANGED calcVars
    /\ UNCHANGED uiVars
    /\ UNCHANGED tagVars
    /\ UNCHANGED guardVars

\* if window.is_minimized().unwrap() { continue; }: the iteration ends, the
\* window guard is dropped, and the loop is back at its head.
Continue(t) ==
    /\ pc[t] = "minimized"
    /\ pc' = [pc EXCEPT ![t] = "check"]
    /\ guard' = [guard EXCEPT ![window_clone[t]] = 0]
    /\ UNCHANGED <<capture_active, window, window_clone, pass_tags, poisoned>>
    /\ UNCHANGED <<tags, tags_guard, off_publishers>>
    /\ UNCHANGED calcVars
    /\ UNCHANGED uiVars
    /\ UNCHANGED tagVars
    /\ UNCHANGED guardVars

\* window.capture_image().unwrap()
CaptureImage(t) ==
    /\ pc[t] = "capture"
    /\ \E ok \in BOOLEAN :
          IF ok
          THEN /\ pc' = [pc EXCEPT ![t] = "recognize"]
               /\ UNCHANGED <<guard, pass_tags, poisoned, tags_guard>>
               /\ UNCHANGED guardVars
          ELSE PanicUnderWindowGuard(t, "panicked_capture")
    /\ UNCHANGED <<capture_active, window, window_clone>>
    /\ UNCHANGED <<tags, off_publishers>>
    /\ UNCHANGED calcVars
    /\ UNCHANGED uiVars
    /\ UNCHANGED tagVars

\* image_to_tags(..).unwrap() and the map to UiTag: the pass ends with a tag
\* list, or fails. A candidate that cannot be cropped and an OCR engine
\* failure are an Err of tag_button_to_string, which image_to_tags unwraps;
\* an Err of detect_tag_boxes or is_tag_region_selected is returned by
\* image_to_tags and unwrapped by the loop: each is a panic of the thread.
\* The map to UiTag looks the window's monitor up for each tag and unwraps
\* it: with a tag in the list, a failed lookup is a panic as well.
ImageToTags(t) ==
    /\ pc[t] = "recognize"
    /\ \E returned \in PassOutcomes, monitor \in {"found", "error"} :
             CASE returned.res = "Ok" /\ (monitor = "found" \/ returned.tags = <<>>) ->
                  /\ pass_tags' = [pass_tags EXCEPT ![t] =
                                      [k \in 1..Len(returned.tags) |-> FromTag(returned.tags[k])]]
                  /\ pc' = [pc EXCEPT ![t] = "publish"]
                  /\ UNCHANGED <<guard, poisoned, tags_guard>>
                  /\ UNCHANGED guardVars
               [] returned.res = "Ok" /\ monitor = "error" /\ returned.tags # <<>> ->
                  PanicUnderWindowGuard(t, "panicked_monitor")
               [] OTHER -> PanicUnderWindowGuard(t, "panicked_recognition")
    /\ UNCHANGED <<capture_active, window, window_clone>>
    /\ UNCHANGED <<tags, off_publishers>>
    /\ UNCHANGED calcVars
    /\ UNCHANGED uiVars
    /\ UNCHANGED tagVars

\* What a plausible slip would make of the publish: the list written without
\* waiting for the guard.
LockTagsUnguarded(t) ==
    /\ pc[t] = "publish"
    /\ pc' = [pc EXCEPT ![t] = "replace"]
    /\ UNCHANGED <<capture_active, window, window_clone, pass_tags, guard, poisoned>>
    /\ UNCHANGED <<tags, tags_guard, off_publishers>>
    /\ UNCHANGED calcVars
    /\ UNCHANGED uiVars
    /\ UNCHANGED tagVars
    /\ UNCHANGED guardVars

\* tag_clone.lock().unwrap(): the thread waits while another holds the
\* guard, and panics on a poisoned mutex.
LockTags(t) ==
    /\ pc[t] = "publish"
    /\ tags_guard = Free
    /\ IF tags_poisoned
       THEN PanicUnderWindowGuard(t, "panicked_poisoned")
       ELSE /\ tags_guard' = t
            /\ pc' = [pc EXCEPT ![t] = "replace"]
            /\ UNCHANGED <<pass_tags, guard, poisoned>>
            /\ UNCHANGED guardVars
    /\ UNCHANGED <<capture_active, window, window_clone>>
    /\ UNCHANGED <<tags, off_publishers>>
    /\ UNCHANGED calcVars
    /\ UNCHANGED uiVars
    /\ UNCHANGED tagVars

\* What a plausible slip would make of the publish: the monitor looked up
\* in the statement that replaces the list, under the tag list's guard.
PublishLookingUp(t) ==
    /\ pc[t] = "replace"
    /\ \E monitor \in {"found", "error"} :
          IF monitor = "found" \/ pass_tags[t] = <<>>
          THEN /\ tags' = pass_tags[t]
               /\ tags_guard' = IF tags_guard = t THEN Free ELSE tags_guard
               /\ off_publishers' = IF capture_active THEN off_publishers
                                                     ELSE off_publishers \cup {t}
               /\ pass_tags' = [pass_tags EXCEPT ![t] = <<>>]
               /\ guard' = [guard EXCEPT ![window_clone[t]] = 0]
               /\ pc' = [pc EXCEPT ![t] = "check"]
               /\ UNCHANGED poisoned
               /\ UNCHANGED guardVars
          ELSE /\ PanicUnderWindowGuard(t, "panicked_monitor")
               /\ UNCHANGED <<tags, off_publishers>>
    /\ UNCHANGED <<capture_active, window, window_clone>>
    /\ UNCHANGED calcVars
    /\ UNCHANGED uiVars
    /\ UNCHANGED tagVars

\* *tag_clone.lock().unwrap() = tags; the whole list is replaced, the guard
\* dropped, and then the iteration ends and the window guard is dropped.
Publish(t) ==
    /\ pc[t] = "replace"
    /\ tags' = pass_tags[t]
    /\ tags_guard' = IF tags_guard = t THEN Free ELSE tags_guard
    /\ off_publishers' = IF capture_active THEN off_publishers ELSE off_publishers \cup {t}
    /\ pass_tags' = [pass_tags EXCEPT ![t] = <<>>]
    /\ guard' = [guard EXCEPT ![window_clone[t]] = 0]
    /\ pc' = [pc EXCEPT ![t] = "check"]
    /\ UNCHANGED <<capture_active, window, window_clone, poisoned>>
    /\ UNCHANGED calcVars
    /\ UNCHANGED uiVars
    /\ UNCHANGED tagVars
    /\ UNCHANGED guardVars

\* A step of the detection thread t. A panic of the UI thread, the main
\* thread, ends the process and every detection thread with it.
DetectionLoop(t) ==
    /\ ui_pc # "panicked"
    /\ \/ CheckRunning(t)
       \/ LockWindow(t)
       \/ IsMinimized(t)
       \/ Continue(t)
       \/ CaptureImage(t)
       \/ ImageToTags(t)
       \/ LockTags(t)
       \/ Publish(t)

\* MainMenu::update, the start button.
StartButton ==
    \/ StartButtonClicked
    \/ StartButtonReturn

Next ==
    \/ ReadTitle
    \/ AssignWindow
    \/ StartButton
    \/ OverlayUpdate
    \/ \E t \in Threads : DetectionLoop(t)

Spec == Init /\ [][Next]_vars

(***************************************************************************)
(* The calculator's claims, under SpecCalc                                  *)
(***************************************************************************)
Evaluated == cpc = "evaluated"

\* The results of the last evaluate call that carry the variation v.
ResultsFor(v) == { k \in 1..Len(results) : results[k].tag_variation = v }

\* The matching rule as the specification words it, on sets of kinds.
Rule(op, variation) ==
    /\ (op.rarity # "Tier6" \/ "TopOperator" \in Range(variation))
    /\ Range(variation) \subseteq Range(op.tag_list)

ScenarioA == { <<"Ranged">>, <<"Survival">>, <<"Ranged", "Survival">> }

\* C1: matches_tags returns true exactly when (the operator is not Tier6 or
\* the list contains TopOperator) and every kind of the list is in the
\* operator's tag_list, for every pool operator and every variation evaluate
\* enumerates; an operator is in the result of a variation exactly when the
\* rule holds; a non-top operator tagged Ranged, Survival, Melee matches
\* {Ranged}, {Survival} and {Ranged, Survival}.
C1_MatchingRule ==
    Evaluated =>
        /\ \A j \in 1..Len(variations), i \in 1..Len(pool) :
              /\ MatchesTags(pool[i], variations[j]) <=> Rule(pool[i], variations[j])
              /\ (\E k \in ResultsFor(variations[j]) :
                      Contains(results[k].obtainable_operators, i))
                   <=> Rule(pool[i], variations[j])
        /\ \A i \in 1..Len(pool) :
              (/\ pool[i].rarity # "Tier6"
               /\ {"Ranged", "Survival", "Melee"} \subseteq Range(pool[i].tag_list))
              => \A v \in ScenarioA : MatchesTags(pool[i], v)

\* C1's case: Ranged and Survival are detected, the pool holds the non-top
\* operator tagged Ranged, Survival, Melee, and it is in all three results.
C1_Witness ==
    /\ Evaluated
    /\ TagKinds(tags) = <<"Ranged", "Survival">>
    /\ Len(pool) = 1
    /\ pool[1].rarity # "Tier6"
    /\ Range(pool[1].tag_list) = {"Ranged", "Survival", "Melee"}
    /\ Len(results) = 3
    /\ \A k \in 1..3 : results[k].obtainable_operators = <<1>>

\* C2: in every CalcResult whose tag_variation lacks TopOperator no operator
\* is Tier6; a Tier6 operator tagged Ranged, TopOperator is in no result for
\* {Ranged} and, when both kinds are detected, in the result for
\* {Ranged, TopOperator}.
C2_TopOperatorRule ==
    Evaluated =>
        /\ \A k \in 1..Len(results) :
              ~Contains(results[k].tag_variation, "TopOperator")
              => \A n \in 1..Len(results[k].obtainable_operators) :
                    pool[results[k].obtainable_operators[n]].rarity # "Tier6"
        /\ \A i \in 1..Len(pool) :
              (/\ pool[i].rarity = "Tier6"
               /\ Range(pool[i].tag_list) = {"Ranged", "TopOperator"})
              => /\ \A k \in ResultsFor(<<"Ranged">>) :
                       ~Contains(results[k].obtainable_operators, i)
                 /\ {"Ranged", "TopOperator"} \subseteq Range(TagKinds(tags))
                    => \E k \in 1..Len(results) :
                          /\ Range(results[k].tag_variation) = {"Ranged", "TopOperator"}
                          /\ Contains(results[k].obtainable_operators, i)

\* C2's case: Ranged and TopOperator are detected and the pool holds a Tier1
\* Ranged operator and the Tier6 operator: {Ranged} gives the first alone,
\* {TopOperator} and {Ranged, TopOperator} give the Tier6 operator.
C2_Witness ==
    /\ Evaluated
    /\ TagKinds(tags) = <<"Ranged", "TopOperator">>
    /\ Len(pool) = 2
    /\ pool[1].rarity = "Tier1"
    /\ pool[2].rarity = "Tier6"
    /\ results = << CalcResult(<<"Ranged">>, <<1>>),
                    CalcResult(<<"TopOperator">>, <<2>>),
                    CalcResult(<<"Ranged", "TopOperator">>, <<2>>) >>

DistinctKinds(list) ==
    \A i, j \in 1..Len(list) : i # j => list[i].tag_type # list[j].tag_type

\* C3: for a tag list of n pairwise distinct kinds, variations returns
\* exactly 2^n - 1 variations, each non-empty, no two equal as sets, together
\* all the non-empty subsets of the kinds (none for n = 0).
C3_SubsetEnumeration ==
    (Evaluated /\ DistinctKinds(tags)) =>
        /\ Len(variations) = 2 ^ Len(tags) - 1
        /\ \A j \in 1..Len(variations) : Len(variations[j]) > 0
        /\ \A j, k \in 1..Len(variations) :
              j # k => Range(variations[j]) # Range(variations[k])
        /\ { Range(variations[j]) : j \in 1..Len(variations) }
              = (SUBSET Range(TagKinds(tags))) \ {{}}

\* C3's case: two distinct kinds are detected and three variations were
\* enumerated, the last one the full set.
C3_Witness ==
    /\ Evaluated
    /\ Len(tags) = MaxTags
    /\ DistinctKinds(tags)
    /\ Len(variations) = 2 ^ MaxTags - 1
    /\ variations[Len(variations)] = TagKinds(tags)

\* The tag list with every tag dropped whose kind an earlier tag carries.
RECURSIVE Dedup(_)
Dedup(list) ==
    IF list = <<>> THEN <<>>
    ELSE LET front == Dedup(SubSeq(list, 1, Len(list) - 1))
             last == list[Len(list)]
         IN IF \E i \in 1..Len(front) : front[i].tag_type = last.tag_type
            THEN front
            ELSE Append(front, last)

\* C4: evaluate works on the set of detected kinds: for a tag list in which
\* a kind occurs more than once it returns what it returns for the list with
\* the repeated kinds removed, no tag_variation holds a kind twice and no
\* subset is emitted more than once.
C4_DuplicatesCollapsed ==
    Evaluated =>
        /\ results = Evaluate(pool, ignore_tier_1, ignore_tier_2, ignore_tier_3, Dedup(tags))
        /\ \A k \in 1..Len(results) :
              Cardinality(Range(results[k].tag_variation)) = Len(results[k].tag_variation)
        /\ \A j, k \in 1..Len(results) :
              j # k => Range(results[j].tag_variation) # Range(results[k].tag_variation)

StrictlyIncreasing(s) == \A m, n \in 1..Len(s) : m < n => s[m] < s[n]

\* C5: evaluate returns a CalcResult for an enumerated variation exactly
\* when some pool operator matches it; its obtainable_operators are then
\* exactly the matching pool operators, each once, in pool order, and never
\* empty; for detected kinds {Ranged, Survival} every result is for {Ranged},
\* {Survival} or {Ranged, Survival}.
C5_EmissionRule ==
    Evaluated =>
        /\ \A j \in 1..Len(variations) :
              (ResultsFor(variations[j]) # {})
              <=> \E i \in 1..Len(pool) : MatchesTags(pool[i], variations[j])
        /\ \A k \in 1..Len(results) :
              /\ Contains(variations, results[k].tag_variation)
              /\ Len(results[k].obtainable_operators) > 0
              /\ StrictlyIncreasing(results[k].obtainable_operators)
              /\ Range(results[k].obtainable_operators)
                    = { i \in 1..Len(pool) : MatchesTags(pool[i], results[k].tag_variation) }
        /\ Range(TagKinds(tags)) = {"Ranged", "Survival"}
           => \A k \in 1..Len(results) :
                 Range(results[k].tag_variation)
                    \in { {"Ranged"}, {"Survival"}, {"Ranged", "Survival"} }

\* C5's case: Ranged and TopOperator are detected and two non-top pool
\* operators match only {Ranged}: one result, holding the two in pool order,
\* and the other two variations dropped.
C5_Witness ==
    /\ Evaluated
    /\ TagKinds(tags) = <<"Ranged", "TopOperator">>
    /\ Len(pool) = 2
    /\ pool[1].tag_list = <<"Ranged">>
    /\ pool[2].tag_list = <<"Ranged", "Survival", "Melee">>
    /\ Len(variations) = 3
    /\ results = << CalcResult(<<"Ranged">>, <<1, 2>>) >>

\* C6: a catalog that fails to load, missing or malformed, gives an empty
\* pool, every later evaluate returns no result, and neither construction nor
\* evaluate crashes.
C6_LoadFailureEmptyPool ==
    catalog.status # "ok" =>
        /\ cpc # "panicked"
        /\ cpc # "start" => pool = <<>>
        /\ Evaluated => results = <<>>

\* C7: whenever the ignore flag of Tier1, Tier2 or Tier3 is set, no operator
\* of that rarity is in the obtainable_operators of any CalcResult, whatever
\* the other two flags are.
C7_TierFlagsNarrowPool ==
    Evaluated =>
        \A k \in 1..Len(results) :
            \A n \in 1..Len(results[k].obtainable_operators) :
                LET op == pool[results[k].obtainable_operators[n]]
                IN /\ ignore_tier_1 => op.rarity # "Tier1"
                   /\ ignore_tier_2 => op.rarity # "Tier2"
                   /\ ignore_tier_3 => op.rarity # "Tier3"

\* C8: the tier filter skips an operator only when all three flags are set
\* and its rarity is Tier1, Tier2 and Tier3 at once, which no rarity is: under
\* each of the 8 flag settings no pool operator is skipped and evaluate
\* returns what it returns with all flags off.
C8_LiteralTierConjunction ==
    Evaluated =>
        /\ \A i \in 1..Len(pool) :
              ~TierSkipped(pool[i], ignore_tier_1, ignore_tier_2, ignore_tier_3)
        /\ results = Evaluate(pool, FALSE, FALSE, FALSE, tags)

\* C8's case: all three flags are set and a Tier1 and a Tier3 operator are
\* still in a result.
C8_Witness ==
    /\ Evaluated
    /\ ignore_tier_1 /\ ignore_tier_2 /\ ignore_tier_3
    /\ Len(pool) >= 2
    /\ pool[1].rarity = "Tier1"
    /\ pool[2].rarity = "Tier3"
    /\ \E k \in 1..Len(results) : results[k].obtainable_operators = <<1, 2>>

\* C14: a second evaluate call with the tag list, the catalog and the flags
\* unchanged returns the CalcResults the first call returned, from the same
\* variations, and the first call left the tag list, the pool and the flags
\* as it found them.
C14_EvaluateIdempotent ==
    [][(cpc = "evaluated" /\ cpc' = "reevaluated") =>
          /\ results' = results
          /\ variations' = variations
          /\ results = Evaluate(pool, ignore_tier_1, ignore_tier_2, ignore_tier_3, tags)]_vars

\* C14's case: evaluate was called twice on two detected tags and a pool of
\* two operators, and the second call's results are not empty.
C14_Witness ==
    /\ cpc = "reevaluated"
    /\ Len(tags) = MaxTags
    /\ Len(pool) = 2
    /\ Len(results) >= 2

\* The tag list with every tag unselected and in no region.
Plain(list) ==
    [i \in 1..Len(list) |->
        [tag_type |-> list[i].tag_type, selected |-> FALSE, bounding_box |-> 0]]

\* C15: only the kind participates in matching: evaluate returns for a tag
\* list what it returns for the list of the same kinds with every selected
\* flag cleared and every region erased, so two lists with the same sequence
\* of kinds give identical results whatever their flags and regions.
C15_OnlyKindParticipates ==
    Evaluated =>
        results = Evaluate(pool, ignore_tier_1, ignore_tier_2, ignore_tier_3, Plain(tags))

\* C15's case: a selected and an unselected tag in different regions were
\* evaluated and the unselected one's kind is in a result.
C15_Witness ==
    /\ Evaluated
    /\ Len(tags) = 2
    /\ tags[1].selected /\ ~tags[2].selected
    /\ tags[1].bounding_box # tags[2].bounding_box
    /\ \E k \in 1..Len(results) : Contains(results[k].tag_variation, tags[2].tag_type)

\* C19: a catalog record with no avatar reference, or whose referenced avatar
\* file does not exist, resolves to the default asset and the catalog loads:
\* load_operator_data does not fail and the pool holds every record.
C19_MissingAvatarDefaults ==
    catalog.status = "ok" =>
        /\ cpc # "panicked"
        /\ cpc # "start" =>
              /\ Len(pool) = Len(catalog.records)
              /\ \A i \in 1..Len(pool) :
                    catalog.records[i].avatar # "found" => pool[i].avatar = "default_avatar.png"

\* C27: within one evaluate call, an operator of a rarity other than Tier6
\* that is in the result for a subset S is in an emitted result for every
\* non-empty subset T of S; an operator with an empty tag list is in no
\* result.
C27_DownwardClosure ==
    Evaluated =>
        \A k \in 1..Len(results) :
            \A n \in 1..Len(results[k].obtainable_operators) :
                LET i == results[k].obtainable_operators[n]
                IN /\ pool[i].tag_list # <<>>
                   /\ pool[i].rarity # "Tier6" =>
                         \A T \in (SUBSET Range(results[k].tag_variation)) \ {{}} :
                             \E m \in 1..Len(results) :
                                 /\ Range(results[m].tag_variation) = T
                                 /\ Contains(results[m].obtainable_operators, i)

\* C27's case: Ranged and Survival are detected, the pool holds an operator
\* with no tags and the Tier3 operator tagged Ranged, Survival, Melee; the
\* latter is alone in the results for the pair and for each single kind.
C27_Witness ==
    /\ Evaluated
    /\ TagKinds(tags) = <<"Ranged", "Survival">>
    /\ Len(pool) = 2
    /\ pool[1].tag_list = <<>>
    /\ pool[2].rarity = "Tier3"
    /\ results = << CalcResult(<<"Ranged">>, <<2>>),
                    CalcResult(<<"Survival">>, <<2>>),
                    CalcResult(<<"Ranged", "Survival">>, <<2>>) >>

(***************************************************************************)
(* The recognition's claims, under SpecTags                                 *)
(***************************************************************************)
Returned == recognized.res # "Pending"

\* The text of a candidate is recognized: long enough and close to a
\* vocabulary string.
Recognizable(rec) == Len(rec.text) >= 3 /\ get_close_matches(rec.text) # <<>>

\* C18: a candidate whose text is not recognized (too short, or no fuzzy
\* match) yields no tag and no error, and so would one Tag::new rejected: on
\* a frame whose recognized candidates meet no failure and whose other
\* candidates can be cropped and read, image_to_tags returns Ok with one tag
\* per recognized candidate, in candidate order, each with its candidate's
\* rectangle, selected flag and kind.
C18_PerCandidateSkip ==
    (/\ Returned
     /\ frame.detect = "Ok"
     /\ \A i \in 1..Len(frame.recs) :
           \/ frame.recs[i].fault = "none"
           \/ frame.recs[i].fault = "hsv" /\ ~Recognizable(frame.recs[i]))
    => LET kept == SelectSeq(frame.recs, Recognizable)
       IN /\ recognized.res = "Ok"
          /\ Len(recognized.tags) = Len(kept)
          /\ \A k \in 1..Len(kept) :
                /\ recognized.tags[k].bounding_box = kept[k].rect
                /\ recognized.tags[k].selected = kept[k].selected
                /\ recognized.tags[k].tag_type = TagTypeOf(get_close_matches(kept[k].text)[1])

\* C18's case: of two candidates the first reads a text with no close match
\* and the second a tag; one tag is returned, in the second rectangle.
C18_Witness ==
    /\ Returned
    /\ Len(frame.recs) = 2
    /\ frame.recs[1].text = "Recruit" /\ frame.recs[1].fault = "none"
    /\ frame.recs[2].text = "Rangd" /\ frame.recs[2].selected
    /\ recognized = [res |-> "Ok",
                     tags |-> << [tag_type |-> "Ranged", selected |-> TRUE,
                                  bounding_box |-> 2] >>]

\* The vocabulary and the kinds: 29 strings, each accepted by Tag::new, no
\* two naming one kind, every kind named, and to_string giving back the
\* string.
VocabularyLockstep ==
    /\ Len(TAGS_STRINGS) = 29
    /\ \A i \in 1..Len(TAGS_STRINGS) :
          /\ TagTypeOf(TAGS_STRINGS[i]) \in TagType
          /\ TagNew(TAGS_STRINGS[i], FALSE, 0).res = "Ok"
          /\ to_string(TagTypeOf(TAGS_STRINGS[i])) = TAGS_STRINGS[i]
    /\ \A i, j \in 1..Len(TAGS_STRINGS) :
          i # j => TagTypeOf(TAGS_STRINGS[i]) # TagTypeOf(TAGS_STRINGS[j])
    /\ \A kind \in TagType :
          Cardinality({ i \in 1..Len(TAGS_STRINGS) : TagTypeOf(TAGS_STRINGS[i]) = kind }) = 1

\* C20: TAGS_STRINGS and the kinds are in lockstep (each of the 29 strings
\* is accepted by Tag::new, distinct strings give distinct kinds, every kind
\* is the image of exactly one string, to_string(kind(s)) = s), and a string
\* tag_button_to_string returns for a candidate is never rejected by
\* Tag::new as an InvalidTagString.
C20_VocabularyLockstep ==
    /\ VocabularyLockstep
    /\ \A i \in 1..Len(frame.recs) :
          LET tag_string == tag_button_to_string(frame.recs[i])
          IN tag_string.res = "Some" =>
                /\ Contains(TAGS_STRINGS, tag_string.string)
                /\ TagNew(tag_string.string, frame.recs[i].selected, frame.recs[i].rect).res = "Ok"
    /\ \A k \in 1..Len(recognized.tags) :
          to_string(recognized.tags[k].tag_type) \in Range(TAGS_STRINGS)

\* C20's case: the recognizer read "Top Operator", returned the vocabulary
\* string Top-Operator, and the tag of kind TopOperator was built from it.
C20_Witness ==
    /\ Returned
    /\ Len(frame.recs) = 1
    /\ frame.recs[1].text = "Top Operator"
    /\ tag_button_to_string(frame.recs[1]).string = "Top-Operator"
    /\ Len(recognized.tags) = 1
    /\ recognized.tags[1].tag_type = "TopOperator"

\* The spellings of the multi-word kinds.
Spellings ==
    { <<"FastRedeploy", {"Fast-Redeploy", "FastRedeploy", "Fast Redeploy"}>>,
      <<"DpRecovery", {"Dp-Recovery", "DpRecovery", "Dp Recovery"}>>,
      <<"CrowdControl", {"Crowd-Control", "CrowdControl", "Crowd Control"}>>,
      <<"SeniorOperator", {"Senior-Operator", "SeniorOperator", "Senior Operator"}>>,
      <<"TopOperator", {"Top-Operator", "TopOperator", "Top Operator"}>> }

\* The strings of the table: the vocabulary and the spellings.
TableStrings == Range(TAGS_STRINGS) \cup UNION { e[2] : e \in Spellings }

\* Each spelling of a multi-word kind names that kind.
SpellingsAgree == \A e \in Spellings : \A spelling \in e[2] : TagTypeOf(spelling) = e[1]

\* C21: the hyphenated, concatenated and spaced spellings of FastRedeploy,
\* DpRecovery, CrowdControl, SeniorOperator and TopOperator are accepted by
\* Tag::new and give that kind; an accepted string gives one kind of the
\* enumeration; a string outside the table, a correct name in another letter
\* case included, fails with InvalidTagString and no tag is created.
C21_SynonymNormalization ==
    /\ SpellingsAgree
    /\ created.res \in {"Ok", "Err"} =>
          IF given_string \in TableStrings
          THEN /\ created.res = "Ok"
               /\ created.tag.tag_type \in TagType
               /\ \A e \in Spellings : given_string \in e[2] => created.tag.tag_type = e[1]
          ELSE /\ created.res = "Err"
               /\ created.tag = <<>>
               /\ TagTypeOf(given_string) = "InvalidTagString"

\* C21's case: Tag::new was given the spaced spelling Crowd Control and
\* returned a tag of kind CrowdControl.
C21_Witness ==
    /\ given_string = "Crowd Control"
    /\ created.res = "Ok"
    /\ created.tag.tag_type = "CrowdControl"

\* C22: detect_tag_boxes emits the bounding rectangle of a contour exactly
\* when its polygon has 4 vertices and the rectangle's area A satisfies
\* 0.005 * imageArea <= A < 0.25 * imageArea, in contour order: a rectangle
\* of exactly 0.5% is emitted, one of exactly 25% is not, and no contour with
\* another vertex count is emitted whatever its area.
C22_BoxAreaFilter ==
    boxes.res \in {"Ok", "Err", "Panic"} =>
        LET InRange(rect) == 200 * Area(rect) >= Area(img_size) /\ 4 * Area(rect) < Area(img_size)
            Qualifies(contour) == contour.vertices = 4 /\ InRange(contour.bounding)
            kept == SelectSeq(contours, Qualifies)
        IN /\ boxes.res = "Ok" => boxes.rects = [k \in 1..Len(kept) |-> kept[k].bounding]
           /\ boxes.res # "Ok" => boxes.rects = <<>>
           /\ \A k \in 1..Len(boxes.rects) : InRange(boxes.rects[k])
           /\ \A i \in 1..Len(contours) :
                 /\ (/\ boxes.res = "Ok"
                     /\ contours[i].vertices = 4
                     /\ 200 * Area(contours[i].bounding) = Area(img_size))
                       => Contains(boxes.rects, contours[i].bounding)
                 /\ (\A j \in 1..Len(contours) :
                        contours[j].bounding = contours[i].bounding =>
                           \/ contours[j].vertices # 4
                           \/ 4 * Area(contours[j].bounding) >= Area(img_size))
                       => ~Contains(boxes.rects, contours[i].bounding)

\* C22's case: a 4-vertex contour of exactly 0.5% of the image and one of
\* exactly 25%: the first rectangle alone is emitted.
C22_Witness ==
    /\ Len(contours) = 2
    /\ contours[1] = [vertices |-> 4, bounding |-> [width |-> 2, height |-> 1]]
    /\ contours[2] = [vertices |-> 4, bounding |-> [width |-> 10, height |-> 10]]
    /\ boxes = [res |-> "Ok", rects |-> << [width |-> 2, height |-> 1] >>]

(***************************************************************************)
(* The detection loops' claims, under Spec                                  *)
(***************************************************************************)
\* A detection pass is in progress in thread t: capture, recognition, publish.
InPass(t) == pc[t] \in {"capture", "recognize", "publish", "replace"}

\* C9: detection passes are strictly sequential: for any sequence of clicks
\* on the start button and any scheduling, no two detection passes are in
\* progress at the same time.
C9_PassesSequential ==
    Cardinality({ t \in Threads : InPass(t) }) <= 1

\* C10: a detection pass that fails in recognition (a candidate that cannot
\* be cropped, an OCR engine failure) ends that iteration only: the loop's
\* thread is never torn down by it, and goes on to the next iteration.
C10_FailedPassKeepsLoop ==
    \A t \in Threads : pc[t] # "panicked_recognition"

\* The tag lists a single detection pass can produce.
CompleteLists ==
    { [k \in 1..Len(returned.tags) |-> FromTag(returned.tags[k])] :
        returned \in { r \in PassOutcomes : r.res = "Ok" } }

\* C11: a reader holding the tag list's guard, the overlay's drawing loop
\* or evaluate's copy, sees the initial empty list or the complete list of
\* one detection pass, from the first tag to the last: while the UI holds the
\* guard the list does not change and what has been drawn is its beginning;
\* the list changes only by a detection thread that holds the guard replacing
\* the whole of it by its pass's list.
C11_NoTornReads ==
    [][/\ ui_pc \in {"draw", "copy"} =>
            /\ tags_guard = Ui
            /\ tags = <<>> \/ tags \in CompleteLists
            /\ tags' = tags
            /\ ui_pc = "draw" => drawn = SubSeq(tags, 1, Len(drawn))
       /\ tags' # tags =>
            \E t \in Threads :
                /\ pc[t] = "replace"
                /\ tags_guard = t
                /\ tags' = pass_tags[t]]_vars

\* C11's case: the overlay has drawn the one published tag and holds the
\* guard while a detection thread waits to publish a different list.
C11_Witness ==
    /\ ui_pc = "draw"
    /\ Len(drawn) = 1
    /\ drawn = tags
    /\ \E t \in Threads : pc[t] = "publish" /\ pass_tags[t] # tags

\* C12: the flag is read only at the head of an iteration: a loop exits only
\* from the head and only with the flag off, with the flag off the head leads
\* nowhere but out, an exited loop stays exited, and a loop that has published
\* since the flag went off is at the head or out for as long as the flag stays
\* off, so it publishes at most once more and never afterwards.
C12_StopAtIterationBoundary ==
    [][\A t \in Threads :
          /\ (pc'[t] = "exited" /\ pc[t] # "exited") => (pc[t] = "check" /\ ~capture_active)
          /\ (pc[t] = "check" /\ pc'[t] # "check" /\ ~capture_active) => pc'[t] = "exited"
          /\ pc[t] = "exited" => pc'[t] = "exited"
          /\ (t \in off_publishers /\ ~capture_active) => pc[t] \in {"check", "exited"}
          /\ (t \in off_publishers /\ ~capture_active /\ ~capture_active') =>
                pc'[t] \in {"check", "exited"}]_vars

\* C12's case: the flag is off, and a loop that was mid-iteration when it
\* went off has published once since and has exited.
C12_Witness ==
    /\ ~capture_active
    /\ \E t \in off_publishers : pc[t] = "exited"

\* C13: evaluate reads the shared list once, under the guard, copying the
\* kinds; the variations and the results are those of the copy; a publish
\* during evaluate changes neither the copy nor the results; and no step of
\* evaluate changes the tag list.
C13_EvaluateOneSnapshot ==
    [][/\ (ui_pc = "copy" /\ ui_pc' = "compute") =>
             (snapshot' = [i \in 1..Len(tags) |-> tags[i].tag_type] /\ tags' = tags)
       /\ (ui_pc = "compute" /\ ui_pc' = "computed") =>
             /\ variations' = Variations(snapshot)
             /\ results' = EvaluateKinds(pool, ignore_tier_1, ignore_tier_2, ignore_tier_3, snapshot)
             /\ tags' = tags
       /\ (ui_pc = "evaluate" /\ ui_pc' # ui_pc) => tags' = tags
       /\ (ui_pc \in {"compute", "computed"} /\ tags' # tags) =>
             (snapshot' = snapshot /\ results' = results /\ variations' = variations)]_vars

\* C13's case: evaluate has returned results for the kinds it copied while
\* a publish in between has made the shared list a different one.
C13_Witness ==
    /\ ui_pc = "computed"
    /\ snapshot = <<"Ranged">>
    /\ tags = <<>>
    /\ results # <<>>

\* C16: a detection thread holds the tag list's guard only for the
\* replacement at publish, never while sleeping, capturing or recognizing;
\* the UI holds it for the drawing loop and, in evaluate, only while copying
\* the kinds, not while building variations or scanning the pool.
C16_GuardHeldBriefly ==
    /\ \A t \in Threads : tags_guard = t => pc[t] = "replace"
    /\ tags_guard = Ui => ui_pc \in {"draw", "copy"}
    /\ ui_pc \in {"evaluate", "compute", "computed"} => tags_guard # Ui

\* C16's case: a detection thread replaces the list, holding the guard,
\* while evaluate scans the pool; and another is recognizing.
C16_Witness ==
    /\ ui_pc = "compute"
    /\ \E t, u \in Threads : pc[t] = "replace" /\ tags_guard = t /\ pc[u] = "recognize"

\* C17: when the captured window is minimized the iteration is skipped: the
\* thread holds no captured list, its next step drops the window guard and
\* is back at the loop's head, and the shared tag list is as it was.
C17_MinimizedSkipsIteration ==
    [][\A t \in Threads :
          pc[t] = "minimized" =>
             /\ pass_tags[t] = <<>>
             /\ pc'[t] # "minimized" =>
                   /\ pc'[t] = "check"
                   /\ guard'[window_clone[t]] = 0
                   /\ pass_tags'[t] = <<>>
                   /\ tags' = tags]_vars

\* C17's case: a list was published, capture is on, and a detection thread
\* finds the window minimized.
C17_Witness ==
    /\ capture_active
    /\ tags # <<>>
    /\ \E t \in Threads : pc[t] = "minimized"

\* The positions of a detection thread that has not been spawned, has left
\* its loop, or has panicked.
Panics ==
    {"panicked_poisoned", "panicked_minimized", "panicked_capture",
     "panicked_recognition", "panicked_monitor"}

Alive(t) == pc[t] \notin ({"idle", "exited"} \cup Panics)

\* C23: at most one detection loop is alive at any time, for any sequence
\* of clicks on the start button, the click that switches capture off and
\* off-then-on clicks within one capture interval included.
C23_AtMostOneLoop ==
    Cardinality({ t \in Threads : Alive(t) }) <= 1

\* C24: a failed detection pass leaves the published state intact: a
\* thread fails only at the window lock, the minimized query, the capture or
\* the recognition with its offset lookup, all before it takes the tag list's
\* guard; the failing step changes neither the tag list nor its guard and
\* drops the failed pass's list; the tag list is always the empty list or
\* the complete list of one pass; its mutex is never poisoned and its guard is
\* never left with a thread that is not replacing the list.
C24_FailedPassKeepsPublished ==
    [][/\ \A t \in Threads :
            (pc'[t] \in Panics /\ pc[t] \notin Panics) =>
                /\ pc[t] \in {"sleep", "locked", "capture", "recognize"}
                /\ tags_guard # t
                /\ tags_guard' = tags_guard
                /\ tags' = tags
                /\ pass_tags'[t] = <<>>
                /\ ~tags_poisoned'
       /\ tags = <<>> \/ tags \in CompleteLists
       /\ ~tags_poisoned
       /\ \A t \in Threads : tags_guard = t => pc[t] = "replace"]_vars

\* C24's case: a thread has failed at the offset lookup of a later pass, the
\* list it published before is still the shared one, and the overlay has
\* taken the guard and drawn that list.
C24_Witness ==
    /\ \E t \in Threads : pc[t] = "panicked_monitor"
    /\ tags # <<>>
    /\ ui_pc = "draw"
    /\ tags_guard = Ui
    /\ drawn = tags

Agents == Threads \cup {Ui}

\* The holder of the guard the agent a is waiting for, Free when a is not
\* waiting: a detection thread waits at the loop's head for the flag's guard,
\* after its sleep for its window's, before the publish for the tag list's;
\* the UI, inside evaluate, for the tag list's.
WaitsFor(a) ==
    IF a = Ui
    THEN IF ui_pc = "evaluate" THEN tags_guard ELSE Free
    ELSE CASE pc[a] = "check" -> flag_guard
           [] pc[a] = "sleep" -> guard[window_clone[a]]
           [] pc[a] = "publish" -> tags_guard
           [] OTHER -> Free

\* Following the holders from a for at most n waits ends at an agent that
\* is not waiting.
RECURSIVE Released(_, _)
Released(a, n) ==
    IF WaitsFor(a) = Free THEN TRUE
    ELSE IF n = 0 THEN FALSE
    ELSE Released(WaitsFor(a), n - 1)

\* C25: no thread is blocked forever on a guard: every chain of waits ends
\* at an agent that is not waiting, every holder of a guard is at a position
\* from which it steps on, and a detection thread that is not waiting can
\* step; the guards are taken in one order: a detection thread never holds
\* the flag's guard with another, and takes its window's before the tag
\* list's; the UI takes the calculator's before the tag list's in evaluate,
\* holds the tag list's alone while drawing, holds only the flag's while
\* spawning, and never holds a window's across a step.
C25_DeadlockFreedom ==
    /\ \A a \in Agents : Released(a, Cardinality(Agents))
    /\ \A w \in Mutexes :
          guard[w] # 0 =>
             /\ guard[w] \in Threads
             /\ window_clone[guard[w]] = w
             /\ pc[guard[w]] \in {"locked", "minimized", "capture", "recognize",
                                  "publish", "replace"}
    /\ \A t \in Threads : tags_guard = t => (pc[t] = "replace" /\ guard[window_clone[t]] = t)
    /\ flag_guard \in {Free, Ui}
    /\ calc_guard \in {Free, Ui}
    /\ tags_guard = Ui => ui_pc \in {"draw", "copy"}
    /\ (tags_guard = Ui /\ ui_pc = "copy") => calc_guard = Ui
    /\ (tags_guard = Ui /\ ui_pc = "draw") => (calc_guard = Free /\ flag_guard = Free)
    /\ calc_guard = Ui <=> ui_pc \in {"evaluate", "copy", "compute", "computed"}
    /\ flag_guard = Ui <=> ui_pc = "spawned"
    /\ flag_guard = Ui => (tags_guard # Ui /\ calc_guard = Free)
    /\ ui_pc # "panicked" =>
          \A t \in Threads : (Alive(t) /\ WaitsFor(t) = Free) => ENABLED DetectionLoop(t)
    /\ (ui_pc \notin {"idle", "panicked"} /\ WaitsFor(Ui) = Free) =>
          ENABLED (OverlayUpdate \/ StartButton)

\* C25's case: evaluate, under the calculator's guard, waits for the tag
\* list's guard, which a detection thread holds while replacing the list
\* under its window's guard, for which another detection thread waits.
C25_Witness ==
    /\ ui_pc = "evaluate"
    /\ calc_guard = Ui
    /\ \E t, u \in Threads :
          /\ t # u
          /\ pc[t] = "replace"
          /\ tags_guard = t
          /\ pc[u] = "sleep"
          /\ guard[window_clone[u]] = t

\* C26: within one overlay redraw the tag boxes drawn and the results shown
\* come from the same published list: the list evaluate is about to copy,
\* under the guard, is the list the drawing loop drew.
C26_OneRedrawOneSnapshot ==
    ui_pc = "copy" => drawn = tags

====
